---- MODULE Spec2Model ----
(***************************************************************************)
(* CLEdit (src/cledit.py): the Editor object as a state machine.  One      *)
(* action per key event read by Editor.run; the handlers are operators on  *)
(* the record of the Editor's fields, translated statement by statement.   *)
(* A text line is a sequence of one-character strings, the buffer a        *)
(* sequence of lines.  An uncaught Python exception (IndexError, OSError)  *)
(* leaves Editor.run and ends the program: field `crashed`.                *)
(* draw() writes to the terminal only and changes no field of the Editor   *)
(* (the terminal is taken to be wide enough for every addstr/move).        *)
(***************************************************************************)
EXTENDS Integers, Sequences, FiniteSets, TLC

\* ───────────────── bounds of the model ─────────────────
MaxLines == 2      \* most lines of a buffer in Spec
MaxLen == 1        \* most characters of a line in Spec
MaxHist == 1       \* most snapshots (both stacks together) in Spec
MaxFile == 2       \* most characters of a file that is opened
MaxExtra == 2      \* insertions past the history cap in SpecHist and SpecChain

\* ───────────────── program constants ─────────────────
UNDO_CAP == 100
KEY_DOWN == 258
KEY_UP == 259
KEY_LEFT == 260
KEY_RIGHT == 261
ESC == 27
OTHER_KEY == 0     \* a key code no branch of the handlers names (NUL)

None == "<None>"
NL == "\n"
MENU_ITEMS == <<"File", "Edit", "Help">>
TermRows == {3}

VARIABLES lines, cx, cy, scroll, undo_stack, redo_stack, modified,
          menu_mode, active_menu, filename, running, crashed, rows

vars == <<lines, cx, cy, scroll, undo_stack, redo_stack, modified,
          menu_mode, active_menu, filename, running, crashed, rows>>

\* ───────────────── Python built-ins ─────────────────
Min(a, b) == IF a < b THEN a ELSE b
\* a faulty max that does not clamp: it returns its second argument
max_unclamped(a, b) == b
Max(a, b) == IF a > b THEN a ELSE b

ord(c) ==
    CASE c = "a" -> 97  [] c = "b" -> 98
      [] c = "l" -> 108
      [] c = "n" -> 110 [] c = "N" -> 78
      [] c = "o" -> 111 [] c = "O" -> 79
      [] c = "s" -> 115 [] c = "S" -> 83
      [] c = "q" -> 113 [] c = "Q" -> 81
      [] c = "z" -> 122 [] c = "Z" -> 90
      [] c = "y" -> 121 [] c = "Y" -> 89

Letters == {"a", "b", "l", "n", "N", "o", "O", "s", "S", "q", "Q", "z", "Z", "y", "Y"}

chr(n) == CHOOSE c \in Letters : ord(c) = n

\* CTRL = lambda x: ord(x) & 0x1f
CTRL(x) == ord(x) % 32

\* l[i] for a Python list or str: valid for -len <= i < len, negative from the end
ValidIndex(l, i) == -Len(l) <= i /\ i < Len(l)
Idx(l, i) == IF i < 0 THEN i + Len(l) + 1 ELSE i + 1
GetItem(l, i) == l[Idx(l, i)]
SetItem(l, i, v) == [l EXCEPT ![Idx(l, i)] = v]
DelItem(l, i) == SubSeq(l, 1, Idx(l, i) - 1) \o SubSeq(l, Idx(l, i) + 1, Len(l))
\* s[:n] and s[n:] for n >= 0 (the slice bound is clamped to len(s))
SliceTo(s, n) == SubSeq(s, 1, Min(n, Len(s)))
SliceFrom(s, n) == SubSeq(s, Min(n, Len(s)) + 1, Len(s))
\* list.insert(i, v) for i >= 0 (an index past the end appends)
ListInsert(l, i, v) ==
    SubSeq(l, 1, Min(i, Len(l))) \o <<v>> \o SubSeq(l, Min(i, Len(l)) + 1, Len(l))

\* str.splitlines() on text whose only line break is "\n"
RECURSIVE splitlines(_)
splitlines(c) ==
    IF c = <<>> THEN <<>>
    ELSE LET brk == {i \in 1..Len(c) : c[i] = NL}
         IN  IF brk = {} THEN <<c>>
             ELSE LET i == CHOOSE j \in brk : \A m \in brk : j <= m
                  IN  <<SubSeq(c, 1, i - 1)>> \o splitlines(SubSeq(c, i + 1, Len(c)))

\* ───────────────── the Editor object ─────────────────
Self ==
    [lines |-> lines, cx |-> cx, cy |-> cy, scroll |-> scroll,
     undo_stack |-> undo_stack, redo_stack |-> redo_stack,
     modified |-> modified, menu_mode |-> menu_mode,
     active_menu |-> active_menu, filename |-> filename,
     running |-> running, crashed |-> crashed]

\* Editor.__init__
InitEditor ==
    [lines |-> << <<>> >>, cx |-> 0, cy |-> 0, scroll |-> 0,
     undo_stack |-> <<>>, redo_stack |-> <<>>,
     modified |-> FALSE, menu_mode |-> FALSE,
     active_menu |-> 0, filename |-> None,
     running |-> TRUE, crashed |-> FALSE]

\* an exception leaves the handler where it is raised and ends Editor.run
Raise(s) == [s EXCEPT !.crashed = TRUE]

\* (deepcopy(self.lines), self.cx, self.cy)
Snap(s) == [lines |-> s.lines, cx |-> s.cx, cy |-> s.cy]

\* ───────────────── UNDO / REDO ─────────────────
\* variants of the history operations with one statement wrong
snapshot_keeps_redo(s) ==
    LET pushed == Append(s.undo_stack, Snap(s))
        capped == IF Len(pushed) > UNDO_CAP THEN Tail(pushed) ELSE pushed
    IN  [s EXCEPT !.undo_stack = capped]

snapshot_no_cap(s) ==
    [s EXCEPT !.undo_stack = Append(s.undo_stack, Snap(s)), !.redo_stack = <<>>]

snapshot_evict_newest(s) ==
    LET pushed == Append(s.undo_stack, Snap(s))
        capped == IF Len(pushed) > UNDO_CAP
                  THEN SubSeq(s.undo_stack, 1, Len(s.undo_stack) - 1) \o <<Snap(s)>>
                  ELSE pushed
    IN  [s EXCEPT !.undo_stack = capped, !.redo_stack = <<>>]

\* a faulty undo that records the current state for redo before it tests
\* whether there is anything to undo
undo_pushes_on_empty(s) ==
    IF s.undo_stack = <<>>
    THEN [s EXCEPT !.redo_stack = Append(s.redo_stack, Snap(s))]
    ELSE LET top == s.undo_stack[Len(s.undo_stack)]
         IN  [s EXCEPT !.redo_stack = Append(s.redo_stack, Snap(s)),
                       !.undo_stack = SubSeq(s.undo_stack, 1, Len(s.undo_stack) - 1),
                       !.lines = top.lines, !.cx = top.cx, !.cy = top.cy]

\* a faulty undo that leaves the restored snapshot on the undo stack
undo_no_pop(s) ==
    IF s.undo_stack = <<>> THEN s
    ELSE LET top == s.undo_stack[Len(s.undo_stack)]
         IN  [s EXCEPT !.redo_stack = Append(s.redo_stack, Snap(s)),
                       !.lines = top.lines, !.cx = top.cx, !.cy = top.cy]

undo_keeps_cursor(s) ==
    IF s.undo_stack = <<>> THEN s
    ELSE LET top == s.undo_stack[Len(s.undo_stack)]
         IN  [s EXCEPT !.redo_stack = Append(s.redo_stack, Snap(s)),
                       !.undo_stack = SubSeq(s.undo_stack, 1, Len(s.undo_stack) - 1),
                       !.lines = top.lines]

redo_no_push(s) ==
    IF s.redo_stack = <<>> THEN s
    ELSE LET top == s.redo_stack[Len(s.redo_stack)]
         IN  [s EXCEPT !.redo_stack = SubSeq(s.redo_stack, 1, Len(s.redo_stack) - 1),
                       !.lines = top.lines, !.cx = top.cx, !.cy = top.cy]

snapshot(s) ==
    LET pushed == Append(s.undo_stack, Snap(s))
        capped == IF Len(pushed) > UNDO_CAP THEN Tail(pushed) ELSE pushed
    IN  [s EXCEPT !.undo_stack = capped, !.redo_stack = <<>>]

undo(s) ==
    IF s.undo_stack = <<>> THEN s
    ELSE LET top == s.undo_stack[Len(s.undo_stack)]
         IN  [s EXCEPT !.redo_stack = Append(s.redo_stack, Snap(s)),
                       !.undo_stack = SubSeq(s.undo_stack, 1, Len(s.undo_stack) - 1),
                       !.lines = top.lines, !.cx = top.cx, !.cy = top.cy]

redo(s) ==
    IF s.redo_stack = <<>> THEN s
    ELSE LET top == s.redo_stack[Len(s.redo_stack)]
         IN  [s EXCEPT !.undo_stack = Append(s.undo_stack, Snap(s)),
                       !.redo_stack = SubSeq(s.redo_stack, 1, Len(s.redo_stack) - 1),
                       !.lines = top.lines, !.cx = top.cx, !.cy = top.cy]

\* ───────────────── FILE OPS ─────────────────
\* env is what the outside world answers during one key event:
\*   sub     the key read by a menu's own getch()
\*   name    the text read by getstr() at a prompt
\*   io_ok   whether open() and the read/write succeed
\*   content the text of the file that is read

\* save(), self.filename set: with open(...) as f: f.write(...); modified = False
save_write(s, env) ==
    IF env.io_ok THEN [s EXCEPT !.modified = FALSE] ELSE Raise(s)

prompt_save_as(s, env) ==
    IF env.name # "" THEN save_write([s EXCEPT !.filename = env.name], env)
    ELSE s

save(s, env) ==
    IF s.filename = None \/ s.filename = "" THEN prompt_save_as(s, env)
    ELSE save_write(s, env)

prompt_open(s, env) ==
    IF env.name # ""
    THEN IF env.io_ok
         THEN [s EXCEPT !.lines = splitlines(env.content),
                        !.filename = env.name,
                        !.modified = FALSE]
         ELSE Raise(s)
    ELSE s

\* ───────────────── MENUS ─────────────────
file_menu(s, env) ==
    IF env.sub \in {ord("n"), ord("N")}
    THEN [s EXCEPT !.lines = << <<>> >>, !.filename = None]
    ELSE IF env.sub \in {ord("o"), ord("O")} THEN prompt_open(s, env)
    ELSE IF env.sub \in {ord("s"), ord("S")} THEN save(s, env)
    ELSE IF env.sub \in {ord("q"), ord("Q")} THEN [s EXCEPT !.running = FALSE]
    ELSE s

edit_menu(s, env) ==
    IF env.sub \in {ord("z"), ord("Z")} THEN undo(s)
    ELSE IF env.sub \in {ord("y"), ord("Y")} THEN redo(s)
    ELSE s

help_menu(s) == s

handle_menu(s, ch, env) ==
    IF ch = ESC THEN [s EXCEPT !.menu_mode = FALSE]
    ELSE IF ch = KEY_LEFT
    THEN [s EXCEPT !.active_menu = (s.active_menu - 1) % Len(MENU_ITEMS)]
    ELSE IF ch = KEY_RIGHT
    THEN [s EXCEPT !.active_menu = (s.active_menu + 1) % Len(MENU_ITEMS)]
    ELSE IF ch \in {10, 13}
    THEN LET item == MENU_ITEMS[s.active_menu + 1]
             t == IF item = "File" THEN file_menu(s, env)
                  ELSE IF item = "Edit" THEN edit_menu(s, env)
                  ELSE help_menu(s)
         IN  IF t.crashed THEN t ELSE [t EXCEPT !.menu_mode = FALSE]
    ELSE s

\* ───────────────── INPUT HANDLER ─────────────────
\* elif ch in (10, 13)
split_line(s0) ==
    LET s == snapshot(s0)
    IN  IF ~ValidIndex(s.lines, s.cy) THEN Raise(s)
        ELSE LET line == GetItem(s.lines, s.cy)
                 l1 == SetItem(s.lines, s.cy, SliceTo(line, s.cx))
                 l2 == ListInsert(l1, s.cy + 1, SliceFrom(line, s.cx))
             IN  [s EXCEPT !.lines = l2, !.cx = 0, !.cy = s.cy + 1,
                           !.modified = TRUE]

\* elif ch in (8, 127)
delete_backward(s0) ==
    LET s == snapshot(s0)
    IN  IF s.cx > 0
        THEN IF ~ValidIndex(s.lines, s.cy) THEN Raise(s)
             ELSE LET line == GetItem(s.lines, s.cy)
                  IN  [s EXCEPT !.lines = SetItem(s.lines, s.cy,
                                     SliceTo(line, s.cx - 1) \o SliceFrom(line, s.cx)),
                                !.cx = s.cx - 1,
                                !.modified = TRUE]
        ELSE IF s.cy > 0
        THEN IF ~ValidIndex(s.lines, s.cy - 1) THEN Raise(s)
             ELSE LET prev == GetItem(s.lines, s.cy - 1)
                      s1 == [s EXCEPT !.cx = Len(prev)]
                  IN  IF ~ValidIndex(s.lines, s.cy) THEN Raise(s1)
                      ELSE LET joined == SetItem(s.lines, s.cy - 1,
                                                 prev \o GetItem(s.lines, s.cy))
                           IN  [s1 EXCEPT !.lines = DelItem(joined, s.cy),
                                          !.cy = s.cy - 1,
                                          !.modified = TRUE]
        ELSE [s EXCEPT !.modified = TRUE]

\* elif 32 <= ch <= 126
insert_char(s0, ch) ==
    LET s == snapshot(s0)
    IN  IF ~ValidIndex(s.lines, s.cy) THEN Raise(s)
        ELSE LET line == GetItem(s.lines, s.cy)
             IN  [s EXCEPT !.lines = SetItem(s.lines, s.cy,
                                SliceTo(line, s.cx) \o <<chr(ch)>> \o SliceFrom(line, s.cx)),
                           !.cx = s.cx + 1,
                           !.modified = TRUE]

handle_input(s, ch, env) ==
    IF s.menu_mode THEN handle_menu(s, ch, env)
    ELSE IF ch = CTRL("q") THEN [s EXCEPT !.running = FALSE]
    ELSE IF ch = CTRL("s") THEN save(s, env)
    ELSE IF ch = CTRL("z") THEN undo(s)
    ELSE IF ch = CTRL("y") THEN redo(s)
    ELSE IF ch = CTRL("l") THEN [s EXCEPT !.menu_mode = TRUE]
    ELSE IF ch = KEY_LEFT THEN [s EXCEPT !.cx = Max(0, s.cx - 1)]
    ELSE IF ch = KEY_RIGHT
    THEN IF ~ValidIndex(s.lines, s.cy) THEN Raise(s)
         ELSE [s EXCEPT !.cx = Min(Len(GetItem(s.lines, s.cy)), s.cx + 1)]
    ELSE IF ch = KEY_UP THEN [s EXCEPT !.cy = Max(0, s.cy - 1)]
    ELSE IF ch = KEY_DOWN THEN [s EXCEPT !.cy = Min(Len(s.lines) - 1, s.cy + 1)]
    ELSE IF ch \in {10, 13} THEN split_line(s)
    ELSE IF ch \in {8, 127} THEN delete_backward(s)
    ELSE IF 32 <= ch /\ ch <= 126 THEN insert_char(s, ch)
    ELSE s

\* ───────────────── the key events the model draws ─────────────────
Chars == {"a", "b"}
PrintableKeys == {ord(c) : c \in Chars}
EnterKeys == {10, 13}
BackspaceKeys == {8, 127}
MutatingKeys == PrintableKeys \cup EnterKeys \cup BackspaceKeys
SubKeys == {ord("n"), ord("o"), ord("s"), ord("q"), ord("z"), ord("y"), OTHER_KEY}
Paths == {"f"}

RECURSIVE Texts(_)
Texts(n) ==
    IF n = 0 THEN {<<>>}
    ELSE Texts(n - 1) \cup {Append(t, c) : t \in Texts(n - 1), c \in {"a", NL}}

FileContents == Texts(MaxFile)

NoEnv == [sub |-> OTHER_KEY, name |-> "", io_ok |-> TRUE, content |-> <<>>]
AllEnvs == [sub : SubKeys, name : {""} \cup Paths, io_ok : BOOLEAN, content : FileContents]
\* the answers that are read: a file's text only when Open reads it, a name
\* only at a prompt, the outcome of open() only when a name was given
SaveEnvs ==
    {e \in AllEnvs : /\ e.sub = OTHER_KEY /\ e.content = <<>>
                     /\ (e.name = "" => e.io_ok)}
MenuEnvs ==
    {e \in AllEnvs : /\ (e.sub # ord("o") \/ ~e.io_ok \/ e.name = "" => e.content = <<>>)
                     /\ (e.sub \notin {ord("o"), ord("s")} => e.name = "")
                     /\ (e.name = "" => e.io_ok)}

\* ───────────────── MAIN LOOP ─────────────────
Becomes(t) ==
    /\ lines' = t.lines /\ cx' = t.cx /\ cy' = t.cy /\ scroll' = t.scroll
    /\ undo_stack' = t.undo_stack /\ redo_stack' = t.redo_stack
    /\ modified' = t.modified /\ menu_mode' = t.menu_mode
    /\ active_menu' = t.active_menu /\ filename' = t.filename
    /\ running' = t.running /\ crashed' = t.crashed
    /\ rows' = rows

\* while self.running: (and no exception has ended the loop)
Looping == running /\ ~crashed

InBounds(t) ==
    /\ Len(t.lines) <= MaxLines
    /\ \A i \in 1..Len(t.lines) : Len(t.lines[i]) <= MaxLen
    /\ Len(t.undo_stack) + Len(t.redo_stack) <= MaxHist

\* one turn of Editor.run, draw() then handle_input(getch()), has led to t
Turn(t) == InBounds(t) /\ Becomes(t)

KeyQuit ==
    /\ Looping
    /\ Turn(handle_input(Self, CTRL("q"), NoEnv))

KeySave ==
    /\ Looping
    /\ \E env \in SaveEnvs : Turn(handle_input(Self, CTRL("s"), env))

KeyUndo ==
    /\ Looping
    /\ Turn(handle_input(Self, CTRL("z"), NoEnv))

KeyRedo ==
    /\ Looping
    /\ Turn(handle_input(Self, CTRL("y"), NoEnv))

KeyMenu ==
    /\ Looping
    /\ Turn(handle_input(Self, CTRL("l"), NoEnv))

KeyLeft ==
    /\ Looping
    /\ Turn(handle_input(Self, KEY_LEFT, NoEnv))

KeyRight ==
    /\ Looping
    /\ Turn(handle_input(Self, KEY_RIGHT, NoEnv))

KeyUp ==
    /\ Looping
    /\ Turn(handle_input(Self, KEY_UP, NoEnv))

KeyDown ==
    /\ Looping
    /\ Turn(handle_input(Self, KEY_DOWN, NoEnv))

\* Enter in normal mode splits the line
KeyEnter ==
    /\ Looping /\ ~menu_mode
    /\ \E ch \in EnterKeys : Turn(handle_input(Self, ch, NoEnv))

\* Enter in menu mode commits the selected menu, which reads its own key
KeyMenuCommit ==
    /\ Looping /\ menu_mode
    /\ \E ch \in EnterKeys, env \in MenuEnvs : Turn(handle_input(Self, ch, env))

KeyBackspace ==
    /\ Looping
    /\ \E ch \in BackspaceKeys : Turn(handle_input(Self, ch, NoEnv))

KeyChar ==
    /\ Looping
    /\ \E ch \in PrintableKeys : Turn(handle_input(Self, ch, NoEnv))

KeyEscape ==
    /\ Looping
    /\ Turn(handle_input(Self, ESC, NoEnv))

KeyOther ==
    /\ Looping
    /\ Turn(handle_input(Self, OTHER_KEY, NoEnv))

Init ==
    /\ rows \in TermRows
    /\ lines = InitEditor.lines /\ cx = InitEditor.cx /\ cy = InitEditor.cy
    /\ scroll = InitEditor.scroll
    /\ undo_stack = InitEditor.undo_stack /\ redo_stack = InitEditor.redo_stack
    /\ modified = InitEditor.modified /\ menu_mode = InitEditor.menu_mode
    /\ active_menu = InitEditor.active_menu /\ filename = InitEditor.filename
    /\ running = InitEditor.running /\ crashed = InitEditor.crashed

Next ==
    \/ KeyQuit
    \/ KeySave
    \/ KeyUndo
    \/ KeyRedo
    \/ KeyMenu
    \/ KeyLeft
    \/ KeyRight
    \/ KeyUp
    \/ KeyDown
    \/ KeyEnter
    \/ KeyMenuCommit
    \/ KeyBackspace
    \/ KeyChar
    \/ KeyEscape
    \/ KeyOther

Spec == Init /\ [][Next]_vars

\* ───────────────── history at its cap: insert / undo / redo ─────────────────
\* SpecHist: one character typed again and again, with undo and redo at any
\* point, on a line that grows past the history cap.
HistBounds(t) ==
    /\ Len(t.lines) = 1
    /\ Len(t.lines[1]) <= UNDO_CAP + MaxExtra

HistTurn(t) == HistBounds(t) /\ Becomes(t)

HistInsert ==
    /\ Looping
    /\ HistTurn(handle_input(Self, ord("a"), NoEnv))

HistUndo ==
    /\ Looping
    /\ HistTurn(handle_input(Self, CTRL("z"), NoEnv))

HistRedo ==
    /\ Looping
    /\ HistTurn(handle_input(Self, CTRL("y"), NoEnv))

NextHist ==
    \/ HistInsert
    \/ HistUndo
    \/ HistRedo

SpecHist == Init /\ [][NextHist]_vars

\* SpecChain: cap+k consecutive insertions from the empty buffer (k <= MaxExtra),
\* followed by undo after undo.
ChainInsert ==
    /\ Looping /\ redo_stack = <<>>
    /\ HistTurn(handle_input(Self, ord("a"), NoEnv))

ChainUndo ==
    /\ Looping
    /\ redo_stack # <<>> \/ cx >= UNDO_CAP
    /\ HistTurn(handle_input(Self, CTRL("z"), NoEnv))

NextChain ==
    \/ ChainInsert
    \/ ChainUndo

SpecChain == Init /\ [][NextChain]_vars

\* ───────────────── properties ─────────────────
\* a state in which Editor.run hands the next key to the normal-mode branches
NormalMode == running /\ ~crashed /\ ~menu_mode

SameBufferAndCursor(a, b) == a.lines = b.lines /\ a.cx = b.cx /\ a.cy = b.cy

\* the state after k insertions of "a" into the freshly constructed Editor
RECURSIVE AfterInserts(_)
AfterInserts(k) ==
    IF k = 0 THEN InitEditor
    ELSE handle_input(AfterInserts(k - 1), ord("a"), NoEnv)

\* C1: in every reachable normal-mode state, for every mutating key (printable,
\* Enter, Backspace), undo() gives back the lines and the cursor from before the
\* key, and redo() after that undo() gives back the lines and the cursor from
\* after the key (also where the key's handler stopped on an IndexError).
C1_UndoRedoOfOneEdit ==
    NormalMode =>
        \A k \in MutatingKeys :
            LET t == handle_input(Self, k, NoEnv)
            IN  /\ SameBufferAndCursor(undo(t), Self)
                /\ SameBufferAndCursor(redo(undo(t)), t)

\* a normal-mode state with the cursor off the origin where a mutating key
\* changes the buffer and the undo that follows brings the old buffer back
C1_Witness ==
    /\ NormalMode /\ cy > 0 /\ cx > 0
    /\ \E k \in MutatingKeys :
           LET t == handle_input(Self, k, NoEnv)
           IN  ~t.crashed /\ t.lines # lines /\ undo(t).lines = lines
                          /\ redo(undo(t)).lines = t.lines

\* C2: the undo stack never holds more than 100 snapshots, whatever mix of
\* insertions, undos and redos has been processed.
C2_UndoStackCapped == Len(undo_stack) <= UNDO_CAP

\* the stack is full and its oldest snapshot is no longer the empty buffer:
\* a snapshot was pushed onto a full stack
C2_Witness ==
    /\ Len(undo_stack) = UNDO_CAP
    /\ undo_stack[1].lines # << <<>> >>

\* C3: after cap+k insertions in a row from the empty buffer the undo stack
\* holds exactly cap snapshots; cap undos later the buffer and the cursor are
\* those just after the k-th insertion, and one more undo changes nothing.
C3_EvictsOldestFirst ==
    /\ (redo_stack = <<>> /\ cx >= UNDO_CAP => Len(undo_stack) = UNDO_CAP)
    /\ (Len(redo_stack) = UNDO_CAP =>
            LET total == Len(redo_stack[1].lines[1])
            IN  /\ SameBufferAndCursor(Self, AfterInserts(total - UNDO_CAP))
                /\ undo(Self) = Self)

\* cap undos after cap+k insertions with k > 0: the buffer is not empty
C3_Witness ==
    /\ Len(redo_stack) = UNDO_CAP
    /\ Len(redo_stack[1].lines[1]) > UNDO_CAP
    /\ lines # << <<>> >>

\* C4: in every reachable normal-mode state, every mutating key leaves the redo
\* stack empty, so a redo() right after it changes nothing.
C4_EditClearsRedo ==
    NormalMode =>
        \A k \in MutatingKeys :
            LET t == handle_input(Self, k, NoEnv)
            IN  t.redo_stack = <<>> /\ redo(t) = t

\* a normal-mode state just after an undo (redo history present) in which a
\* mutating key completes
C4_Witness ==
    /\ NormalMode /\ redo_stack # <<>>
    /\ \E k \in MutatingKeys : ~handle_input(Self, k, NoEnv).crashed

\* C5: with a non-empty undo stack, undo() then redo() gives back the lines, the
\* cursor and both stacks; with a non-empty redo stack, so does redo() then undo().
C5_UndoRedoRoundTrip ==
    /\ undo_stack # <<>> => redo(undo(Self)) = Self
    /\ redo_stack # <<>> => undo(redo(Self)) = Self

\* undo history present, and the undo changes the buffer and the cursor row
C5_Witness ==
    /\ undo_stack # <<>>
    /\ undo(Self).lines # lines /\ undo(Self).cy # cy
    /\ undo(Self).redo_stack # <<>>

\* C6: the buffer always holds at least one line.
C6_LinesNeverEmpty == Len(lines) >= 1

\* C7: the cursor row is always an index of the buffer.
C7_RowInRange == 0 <= cy /\ cy < Len(lines)

\* C8: the cursor column always lies within the current line.
C8_ColumnInRange ==
    (0 <= cy /\ cy < Len(lines)) => (0 <= cx /\ cx <= Len(lines[cy + 1]))

\* C9: the cursor row is always inside the visible window of rows - 2 lines.
C9_CursorVisible == scroll >= 0 /\ scroll <= cy /\ cy < scroll + (rows - 2)

\* C10: in every reachable normal-mode state, a printable key followed by
\* Backspace, and Enter followed by Backspace, give back the lines and the cursor.
C10_EditThenBackspace ==
    NormalMode =>
        \A k \in PrintableKeys \cup EnterKeys, b \in BackspaceKeys :
            LET t == handle_input(Self, k, NoEnv)
                u == handle_input(t, b, NoEnv)
            IN  ~t.crashed /\ ~u.crashed => SameBufferAndCursor(u, Self)

\* the fields a no-op must leave alone: buffer, cursor, history, modified flag
SameContentState(a, b) ==
    /\ SameBufferAndCursor(a, b)
    /\ a.undo_stack = b.undo_stack /\ a.redo_stack = b.redo_stack
    /\ a.modified = b.modified

\* C11: in every reachable normal-mode state with the cursor at column 0 of
\* row 0, Backspace leaves lines, cursor, both stacks and the modified flag
\* as they were.
C11_BackspaceAtOriginNoOp ==
    NormalMode /\ cx = 0 /\ cy = 0 =>
        \A b \in BackspaceKeys :
            SameContentState(handle_input(Self, b, NoEnv), Self)

\* a state in which Enter commits the File menu
FileMenuOpen == running /\ ~crashed /\ menu_mode /\ MENU_ITEMS[active_menu + 1] = "File"

\* what the outside world answers when File > Open reads text c successfully
OpenOk(c) == [sub |-> ord("o"), name |-> "f", io_ok |-> TRUE, content |-> c]

\* what it answers to File > New
NewKey == [sub |-> ord("n"), name |-> "", io_ok |-> TRUE, content |-> <<>>]

\* C12: after a successful Open from any reachable state, lines are the file's
\* lines, the cursor is at (0,0), modified is false and both stacks are empty,
\* so an undo() right after changes nothing.
C12_OpenResetsEverything ==
    FileMenuOpen =>
        \A c \in FileContents, ch \in EnterKeys :
            LET t == handle_input(Self, ch, OpenOk(c))
            IN  /\ t.lines = splitlines(c)
                /\ t.cx = 0 /\ t.cy = 0
                /\ ~t.modified
                /\ t.undo_stack = <<>> /\ t.redo_stack = <<>>
                /\ undo(t) = t

\* C13: after New from any reachable state, lines = [""] and the cursor is at
\* the origin.
C13_NewResetsBufferAndCursor ==
    FileMenuOpen =>
        \A ch \in EnterKeys :
            LET t == handle_input(Self, ch, NewKey)
            IN  t.lines = << <<>> >> /\ t.cx = 0 /\ t.cy = 0

\* the in-memory state a failed save or open must leave alone
SameDocument(a, b) ==
    /\ SameContentState(a, b)
    /\ a.filename = b.filename

\* the answers with which the write of a save, or the read of an open, raises
SaveFails == {e \in SaveEnvs : ~e.io_ok}
MenuSaveFails == {e \in MenuEnvs : e.sub = ord("s") /\ ~e.io_ok}
MenuOpenFails == {e \in MenuEnvs : e.sub = ord("o") /\ ~e.io_ok}

\* C14: when the write of a save raises, lines, cursor, filename, modified and
\* history are as before the save was requested; when the read of an open
\* raises, they are as before the open was requested.
C14_FailedIoChangesNothing ==
    /\ NormalMode =>
           \A e \in SaveFails :
               SameDocument(handle_input(Self, CTRL("s"), e), Self)
    /\ FileMenuOpen =>
           \A e \in MenuSaveFails \cup MenuOpenFails, ch \in EnterKeys :
               SameDocument(handle_input(Self, ch, e), Self)

\* what the outside world answers when a save succeeds (the name is read only
\* when the buffer has none yet)
SaveOk == [sub |-> OTHER_KEY, name |-> "f", io_ok |-> TRUE, content |-> <<>>]

\* the state one content-changing operation after s: an edit, an undo, a redo,
\* or File > New (Ctrl+L, Enter, N with the File menu selected)
AfterContentOps(s) ==
    {handle_input(s, k, NoEnv) : k \in MutatingKeys \cup {CTRL("z"), CTRL("y")}}
    \cup {handle_input(handle_input(s, CTRL("l"), NoEnv), ch, NewKey) :
              ch \in {c \in EnterKeys : MENU_ITEMS[s.active_menu + 1] = "File"}}

\* C15: in every reachable normal-mode state, save successfully and then do
\* one edit, undo, redo or New: if the lines now differ from the lines that
\* were saved, modified is true.
C15_ModifiedTracksContent ==
    NormalMode =>
        LET saved == handle_input(Self, CTRL("s"), SaveOk)
        IN  \A u \in AfterContentOps(saved) :
                u.lines # saved.lines => u.modified

\* the frame of a navigation key: content, history and flag as before
SameContentAndHistory(a, b) ==
    /\ a.lines = b.lines
    /\ a.undo_stack = b.undo_stack /\ a.redo_stack = b.redo_stack
    /\ a.modified = b.modified

MenuMode == running /\ ~crashed /\ menu_mode

\* everything but the mode and the menu selection
SameButMenu(a, b) ==
    /\ SameDocument(a, b)
    /\ a.scroll = b.scroll /\ a.running = b.running /\ a.crashed = b.crashed

\* the keys the model draws that are neither Escape nor Enter
NonCommitKeys ==
    PrintableKeys \cup BackspaceKeys
    \cup {CTRL("q"), CTRL("s"), CTRL("z"), CTRL("y"), CTRL("l")}
    \cup {KEY_LEFT, KEY_RIGHT, KEY_UP, KEY_DOWN, OTHER_KEY}

\* C17: in normal mode Ctrl+L enters menu mode and changes nothing else; in
\* menu mode Left/Right change only the selection, cyclically over the 3
\* items, every key other than Escape and Enter leaves lines, cursor, history
\* and modified unchanged and the mode still menu, Escape returns to normal
\* mode changing nothing else, and after Enter the mode is normal.
C17_ModeTransitions ==
    /\ NormalMode =>
           LET t == handle_input(Self, CTRL("l"), NoEnv)
           IN  t.menu_mode /\ SameButMenu(t, Self) /\ t.active_menu = active_menu
    /\ MenuMode =>
           /\ LET l == handle_input(Self, KEY_LEFT, NoEnv)
                  r == handle_input(Self, KEY_RIGHT, NoEnv)
              IN  /\ SameButMenu(l, Self) /\ SameButMenu(r, Self)
                  /\ l.menu_mode /\ r.menu_mode
                  /\ l.active_menu = (IF active_menu = 0 THEN 2 ELSE active_menu - 1)
                  /\ r.active_menu = (IF active_menu = 2 THEN 0 ELSE active_menu + 1)
           /\ \A k \in NonCommitKeys :
                  LET t == handle_input(Self, k, NoEnv)
                  IN  SameContentState(t, Self) /\ t.menu_mode
           /\ LET t == handle_input(Self, ESC, NoEnv)
              IN  ~t.menu_mode /\ SameButMenu(t, Self) /\ t.active_menu = active_menu
           /\ \A ch \in EnterKeys, e \in MenuEnvs :
                  ~handle_input(Self, ch, e).menu_mode

\* C18: undo() with an empty undo stack and redo() with an empty redo stack
\* change nothing: lines, cursor, both stacks and modified (and every other
\* field) are as before, whether called directly or through Ctrl+Z / Ctrl+Y.
C18_EmptyStackNoOps ==
    /\ undo_stack = <<>> =>
           /\ undo(Self) = Self
           /\ NormalMode => handle_input(Self, CTRL("z"), NoEnv) = Self
    /\ redo_stack = <<>> =>
           /\ redo(Self) = Self
           /\ NormalMode => handle_input(Self, CTRL("y"), NoEnv) = Self

\* both stacks empty in a state that is not the initial one: a file has been
\* opened, the buffer holds its text, and Ctrl+Z and Ctrl+Y are pressed
C18_Witness ==
    /\ NormalMode /\ undo_stack = <<>> /\ redo_stack = <<>>
    /\ filename # None /\ lines # << <<>> >> /\ lines # <<>>
    /\ handle_input(Self, CTRL("z"), NoEnv).lines = lines
    /\ handle_input(Self, CTRL("y"), NoEnv).lines = lines

HistorySize(s) == Len(s.undo_stack) + Len(s.redo_stack)

\* C19: in every reachable state the two stacks together hold at most 100
\* snapshots; an undo and a redo that have something to restore each move
\* exactly one snapshot from one stack to the other, and a snapshot() leaves
\* the redo stack empty and the undo stack at most 100 long.
C19_HistorySizeCapped ==
    /\ HistorySize(Self) <= UNDO_CAP
    /\ undo_stack # <<>> =>
           LET t == undo(Self)
           IN  /\ Len(t.undo_stack) = Len(undo_stack) - 1
               /\ Len(t.redo_stack) = Len(redo_stack) + 1
               /\ HistorySize(t) = HistorySize(Self)
    /\ redo_stack # <<>> =>
           LET t == redo(Self)
           IN  /\ Len(t.redo_stack) = Len(redo_stack) - 1
               /\ Len(t.undo_stack) = Len(undo_stack) + 1
               /\ HistorySize(t) = HistorySize(Self)
    /\ LET t == snapshot(Self)
       IN  t.redo_stack = <<>> /\ Len(t.undo_stack) <= UNDO_CAP

\* the two stacks hold 100 snapshots between them, neither is empty, and the
\* oldest snapshot is no longer the empty buffer: the cap has evicted, and
\* undos have since moved snapshots across
C19_Witness ==
    /\ HistorySize(Self) = UNDO_CAP
    /\ undo_stack # <<>> /\ redo_stack # <<>>
    /\ undo_stack[1].lines # << <<>> >>
    /\ Len(redo(Self).undo_stack) = Len(undo_stack) + 1

\* "\n".join(l): the text that save() writes
RECURSIVE join(_, _)
join(sep, l) ==
    IF l = <<>> THEN <<>>
    ELSE IF Len(l) = 1 THEN l[1]
    ELSE l[1] \o <<sep>> \o join(sep, Tail(l))

\* what Open is answered when it reads back the file that a save of s wrote
ReadBack(s) ==
    [sub |-> ord("o"), name |-> "f", io_ok |-> TRUE, content |-> join(NL, s.lines)]

\* C20: for every reachable buffer, writing the lines joined by newline and
\* reading that text back split into lines yields the same sequence of lines.
C20_SaveOpenRoundTrip ==
    /\ splitlines(join(NL, lines)) = lines
    /\ prompt_open(save(Self, SaveOk), ReadBack(Self)).lines = lines

====
